---- MODULE Spec2Model ----
(***************************************************************************)
(* Model of the BTC signal scanner: indicator library (compute_rsi),       *)
(* confluence engine (make_signal), signal log (append_signal_log),        *)
(* hourly digest (hourly_digest) and the three entry points main.run,      *)
(* scanner_5min.run and summary_1hr.run.                                   *)
(*                                                                         *)
(* Floats are modelled as exact rationals [n, d] in lowest terms, d > 0;   *)
(* d = 0 encodes the IEEE specials: NaN = 0/0, +inf = 1/0, -inf = -1/0.    *)
(* Rounding is not modelled.                                               *)
(***************************************************************************)
EXTENDS Integers, Sequences, FiniteSets, TLC

VARIABLES
    \* ---- compute_rsi (SpecRsi) ----
    rpc,        \* "in" | "done"
    close,      \* the close column handed to compute_rsi
    length,     \* the rolling window length
    rsi,        \* the returned series
    \* ---- make_signal (SpecSignal) ----
    spc,        \* "start" | "fetched" | "done"
    bar,        \* latest 5m bar as fetched: Open, High, Low, Close
    n5,         \* number of 5m bars fetched
    df5,        \* last row of the 5m frame after indicators_5m (+ previous close)
    df1h,       \* last row of the 1h frame after indicators_1h
    result,     \* the tuple returned by make_signal
    \* ---- hourly_digest as a function of the log file and now (SpecDigest) ----
    dpc,        \* "in" | "done"
    dfile,      \* [exists, rows]: the log file handed to hourly_digest
    dnow,       \* now_utc
    dbody,      \* the returned body
    \* ---- the scripts running against the shared log file (Spec) ----
    clock,      \* wall clock, minutes
    logFile,    \* [exists, rows]: LOG_PATH on disk
    pc,         \* per process: position in its run()
    now,        \* per process: now = utc_now()
    sig,        \* per process: make_signal's result
    frame,      \* per process: the DataFrame append_signal_log is about to write
    body,       \* per process: hourly_digest's result
    runs,       \* runs started, all scripts together
    alerts,     \* per process: alert e-mails handed to send_email in this run
    digests,    \* per process: digest e-mails handed to send_email in this run
    alertOk,    \* per process: outcome of the alert's send_email ("none" | "sent" | "failed")
    appends,    \* per process: append_signal_log calls completed in this run
    appended    \* rows handed to append_signal_log, in order of completion

rsiVars    == <<rpc, close, length, rsi>>
signalVars == <<spc, bar, n5, df5, df1h, result>>
digestVars == <<dpc, dfile, dnow, dbody>>
sysVars    == <<clock, logFile, pc, now, sig, frame, body, runs, alerts, digests,
                alertOk, appends, appended>>
vars       == <<rsiVars, signalVars, digestVars, sysVars>>

----------------------------------------------------------------------------
(* Float arithmetic *)

Abs(x) == IF x < 0 THEN -x ELSE x

Sgn(x) == IF x < 0 THEN -1 ELSE IF x > 0 THEN 1 ELSE 0

RECURSIVE Gcd(_, _)
Gcd(a, b) == IF b = 0 THEN a ELSE Gcd(b, a % b)

\* n/d in lowest terms, d > 0 required
Rat(n, d) ==
    LET g == Gcd(Abs(n), d)
    IN  [n |-> n \div g, d |-> d \div g]

F(k) == [n |-> k, d |-> 1]

NaN == [n |-> 0, d |-> 0]

Inf(s) == [n |-> s, d |-> 0]

\* Python's None (target/stop of a NO SIGNAL result)
None == [n |-> 0, d |-> -1]

IsNaN(x) == x.d = 0 /\ x.n = 0

IsFinite(x) == x.d > 0

IsZero(x) == x.d > 0 /\ x.n = 0

\* IEEE comparisons: false as soon as one side is NaN
Lt(a, b) ==
    /\ ~IsNaN(a)
    /\ ~IsNaN(b)
    /\ IF a.d = 0 /\ b.d = 0 THEN a.n < b.n ELSE a.n * b.d < b.n * a.d

Gt(a, b) == Lt(b, a)

Le(a, b) ==
    /\ ~IsNaN(a)
    /\ ~IsNaN(b)
    /\ IF a.d = 0 /\ b.d = 0 THEN a.n <= b.n ELSE a.n * b.d <= b.n * a.d

Ge(a, b) == Le(b, a)

Neg(a) == [n |-> -a.n, d |-> a.d]

Add(a, b) ==
    IF IsNaN(a) \/ IsNaN(b) THEN NaN
    ELSE IF a.d = 0 THEN (IF b.d = 0 /\ b.n # a.n THEN NaN ELSE a)
    ELSE IF b.d = 0 THEN b
    ELSE Rat(a.n * b.d + b.n * a.d, a.d * b.d)

Sub(a, b) == Add(a, Neg(b))

Mul(a, b) ==
    IF IsNaN(a) \/ IsNaN(b) THEN NaN
    ELSE IF a.d = 0 \/ b.d = 0
         THEN (IF a.n = 0 \/ b.n = 0 THEN NaN ELSE Inf(Sgn(a.n) * Sgn(b.n)))
    ELSE Rat(a.n * b.n, a.d * b.d)

Div(a, b) ==
    IF IsNaN(a) \/ IsNaN(b) THEN NaN
    ELSE IF b.d = 0 THEN (IF a.d = 0 THEN NaN ELSE F(0))
    ELSE IF b.n = 0 THEN (IF a.n = 0 THEN NaN ELSE Inf(Sgn(a.n)))
    ELSE IF a.d = 0 THEN Inf(Sgn(a.n) * Sgn(b.n))
    ELSE Rat(a.n * b.d * Sgn(b.n), a.d * Abs(b.n))

\* Python's builtin max(a, b) / min(a, b): the first argument unless the
\* second compares greater / smaller
pymax(a, b) == IF Gt(b, a) THEN b ELSE a

pymin(a, b) == IF Lt(b, a) THEN b ELSE a

----------------------------------------------------------------------------
(* compute_rsi *)

\* Series.diff(): NaN at the first position
diff(s) ==
    [i \in 1..Len(s) |-> IF i = 1 THEN NaN ELSE Sub(s[i], s[i - 1])]

\* Series.clip(lower=0.0) / Series.clip(upper=0.0): NaN stays NaN
clip_lower0(s) ==
    [i \in 1..Len(s) |-> IF Lt(s[i], F(0)) THEN F(0) ELSE s[i]]

clip_upper0(s) ==
    [i \in 1..Len(s) |-> IF Gt(s[i], F(0)) THEN F(0) ELSE s[i]]

neg_series(s) == [i \in 1..Len(s) |-> Neg(s[i])]

RECURSIVE window_sum(_, _, _)
window_sum(s, lo, hi) ==
    IF lo > hi THEN F(0) ELSE Add(s[lo], window_sum(s, lo + 1, hi))

\* Series.rolling(w).mean(): min_periods = w, so NaN unless the window holds
\* w non-NaN observations
rolling_mean(s, w) ==
    [i \in 1..Len(s) |->
        IF i < w \/ \E j \in (i - w + 1)..i : IsNaN(s[j])
        THEN NaN
        ELSE Div(window_sum(s, i - w + 1, i), F(w))]

\* Series.replace(0, np.nan)
replace_0_nan(s) ==
    [i \in 1..Len(s) |-> IF IsZero(s[i]) THEN NaN ELSE s[i]]

\* compute_rsi without the replace(0, np.nan) on avg_loss
rsi_no_replace(cl, len) ==
    LET delta    == diff(cl)
        gain     == clip_lower0(delta)
        loss     == neg_series(clip_upper0(delta))
        avg_gain == rolling_mean(gain, len)
        avg_loss == rolling_mean(loss, len)
        rs       == [i \in 1..Len(cl) |-> Div(avg_gain[i], avg_loss[i])]
    IN  [i \in 1..Len(cl) |-> Sub(F(100), Div(F(100), Add(F(1), rs[i])))]

compute_rsi(cl, len) ==
    LET delta    == diff(cl)
        gain     == clip_lower0(delta)
        loss     == neg_series(clip_upper0(delta))
        avg_gain == rolling_mean(gain, len)
        avg_loss == rolling_mean(loss, len)
        nz_loss  == replace_0_nan(avg_loss)
        rs       == [i \in 1..Len(cl) |-> Div(avg_gain[i], nz_loss[i])]
    IN  [i \in 1..Len(cl) |-> Sub(F(100), Div(F(100), Add(F(1), rs[i])))]

----------------------------------------------------------------------------
(* Configuration *)

RSI_LEN_5 == 14

SWING_LOOKBACK_5 == 48

ATR_TP_MULT == Rat(15, 10)

ATR_SL_MULT == Rat(10, 10)

VWAP_TOL == Rat(2, 10)

----------------------------------------------------------------------------
(* indicators_5m / indicators_1h: the last row of each frame.  The columns  *)
(* are functions of the whole bar history; the model takes the values the   *)
(* columns would have from the caller and keeps what the code decides from  *)
(* the number of bars alone: which rolling columns are still NaN.           *)

\* Series.rolling(w): NaN until w observations are in the window
rolling_ready(n, w) == n >= w

indicators_5m(n, b, prev, raw) ==
    [len       |-> n,
     Close     |-> b.Close,
     ClosePrev |-> IF n > 1 THEN prev ELSE b.Close,
     \* diff() loses one observation, rolling(RSI_LEN_5) needs RSI_LEN_5 of them
     RSI       |-> IF rolling_ready(n - 1, RSI_LEN_5) THEN raw.RSI ELSE NaN,
     EMA9      |-> raw.EMA9,
     EMA21     |-> raw.EMA21,
     ATR       |-> raw.ATR,
     VWAP      |-> raw.VWAP,
     SwingHigh |-> IF rolling_ready(n, SWING_LOOKBACK_5) THEN raw.SwingHigh ELSE NaN,
     SwingLow  |-> IF rolling_ready(n, SWING_LOOKBACK_5) THEN raw.SwingLow ELSE NaN]

indicators_1h(raw) ==
    [RSI |-> raw.RSI, EMA_FAST |-> raw.EMA_FAST, EMA_SLOW |-> raw.EMA_SLOW]

----------------------------------------------------------------------------
(* make_signal *)

vwap_ok_buy(price, vwap, atr) == Ge(price, Sub(vwap, Mul(VWAP_TOL, atr)))

vwap_ok_sell(price, vwap, atr) == Le(price, Add(vwap, Mul(VWAP_TOL, atr)))

\* bullish_5 alone, without the `or ema9 >= ema21`
momentum_up_strict(ema9, ema21) == Gt(ema9, ema21)

\* (bullish_5 or ema9 >= ema21)
momentum_up(ema9, ema21) == Gt(ema9, ema21) \/ Ge(ema9, ema21)

\* (bearish_5 or ema9 <= ema21)
momentum_down(ema9, ema21) == Lt(ema9, ema21) \/ Le(ema9, ema21)

\* the BUY target taken with the stop's multiplier
buy_target_sl_mult(swing_high, price, atr) ==
    pymax(swing_high, Add(price, Mul(ATR_SL_MULT, atr)))

buy_target(swing_high, price, atr) ==
    pymax(swing_high, Add(price, Mul(ATR_TP_MULT, atr)))

sell_target(swing_low, price, atr) ==
    pymin(swing_low, Sub(price, Mul(ATR_TP_MULT, atr)))

trend_label(hourly_bull, hourly_bear) ==
    IF hourly_bull THEN "Bull" ELSE IF hourly_bear THEN "Bear" ELSE "Flat"

make_signal(d5, d1h) ==
    LET price       == d5.Close
        rsi5        == d5.RSI
        ema9        == d5.EMA9
        ema21       == d5.EMA21
        vwap        == d5.VWAP
        atr         == d5.ATR
        swing_high  == d5.SwingHigh
        swing_low   == d5.SwingLow
        ema_fast_1h == d1h.EMA_FAST
        ema_slow_1h == d1h.EMA_SLOW
        rsi1h       == d1h.RSI
        hourly_bull == Gt(ema_fast_1h, ema_slow_1h)
        hourly_bear == Lt(ema_fast_1h, ema_slow_1h)
        \* ip = -2 if len(df5) > 1 else -1
        prev_close  == IF d5.len > 1 THEN d5.ClosePrev ELSE d5.Close
        tick_up     == Gt(price, prev_close)
        tick_down   == Lt(price, prev_close)
        common      == [price |-> price, rsi5 |-> rsi5, ema9 |-> ema9,
                        ema21 |-> ema21, vwap |-> vwap, atr |-> atr,
                        hourly_bull |-> hourly_bull, hourly_bear |-> hourly_bear,
                        rsi1h |-> rsi1h]
        out(s, r, t, st) ==
            [signal |-> s, reason |-> r, target |-> t, stop |-> st] @@ common
    IN  IF /\ Lt(rsi5, F(30))
           /\ (hourly_bull \/ Gt(rsi1h, F(50)))
           /\ momentum_up(ema9, ema21)
           /\ vwap_ok_buy(price, vwap, atr)
           /\ tick_up
        THEN out("BUY", <<"RSI5<30 + 1h uptrend + tick-up + near VWAP">>,
                 buy_target(swing_high, price, atr),
                 Sub(price, Mul(ATR_SL_MULT, atr)))
        ELSE IF /\ Gt(rsi5, F(70))
                /\ (hourly_bear \/ Lt(rsi1h, F(50)))
                /\ momentum_down(ema9, ema21)
                /\ vwap_ok_sell(price, vwap, atr)
                /\ tick_down
        THEN out("SELL", <<"RSI5>70 + 1h downtrend + tick-down + near VWAP">>,
                 sell_target(swing_low, price, atr),
                 Add(price, Mul(ATR_SL_MULT, atr)))
        ELSE out("NO SIGNAL",
                 <<"No confluence", trend_label(hourly_bull, hourly_bear), rsi5>>,
                 None, None)

----------------------------------------------------------------------------
(* Time: datetimes are minutes; their renderings are (hour, minute) texts *)

\* timedelta(hours=1)
HOUR == 60

\* datetime.isoformat()
isoformat(t) == <<"iso", t \div 60, t % 60>>

\* pd.to_datetime(.., utc=True) of an isoformat text
to_datetime(s) == s[2] * 60 + s[3]

\* ts_str: strftime("%Y-%m-%d %H:%M:%S %Z")
ts_str(t) == <<t \div 60, t % 60, "UTC">>

\* strftime("%H:%M:%S")
hms(t) == <<t \div 60, t % 60>>

\* now.minute
minute(t) == t % 60

\* f"{x:,.2f}" and f"{x:.1f}": the value rounded to so many decimals
fmt(x, decimals) ==
    IF ~IsFinite(x) THEN <<"nan">>
    ELSE LET k == IF decimals = 2 THEN 100 ELSE 10
         IN  <<(2 * k * x.n + x.d) \div (2 * x.d), decimals>>

----------------------------------------------------------------------------
(* The signal log: append_signal_log and hourly_digest *)

\* an empty CSV cell
Empty == [n |-> 0, d |-> -2]

\* DataFrame.to_csv writes None and NaN as an empty cell
to_cell(x) == IF x = None \/ IsNaN(x) THEN Empty ELSE x

\* pd.read_csv reads an empty cell as NaN
from_cell(c) == IF c = Empty THEN NaN ELSE c

FloatCols == {"price", "target", "stop", "rsi5", "ema9", "ema21", "vwap", "atr5", "rsi1h"}

to_csv(df) ==
    [i \in 1..Len(df) |->
        [c \in DOMAIN df[i] |-> IF c \in FloatCols THEN to_cell(df[i][c]) ELSE df[i][c]]]

read_csv(rows) ==
    [i \in 1..Len(rows) |->
        [c \in DOMAIN rows[i] |->
            IF c \in FloatCols THEN from_cell(rows[i][c]) ELSE rows[i][c]]]

\* the row append_signal_log builds from make_signal's result
log_row(ts_utc, r) ==
    [time_utc     |-> isoformat(ts_utc),
     signal       |-> r.signal,
     price        |-> r.price,
     target       |-> r.target,
     stop         |-> r.stop,
     rsi5         |-> r.rsi5,
     ema9         |-> r.ema9,
     ema21        |-> r.ema21,
     vwap         |-> r.vwap,
     atr5         |-> r.atr,
     hourly_trend |-> IF r.hourly_bull THEN "bull" ELSE IF r.hourly_bear THEN "bear" ELSE "flat",
     rsi1h        |-> r.rsi1h,
     reason       |-> r.reason]

\* first half of append_signal_log: LOG_PATH.exists(), read_csv, concat
append_frame(file, row) ==
    IF file.exists THEN read_csv(file.rows) \o <<row>> ELSE <<row>>

\* second half: df.to_csv(LOG_PATH, index=False)
write_log(df) == [exists |-> TRUE, rows |-> to_csv(df)]

\* the window taken with > in place of >=
in_window_strict(t, window_start) == t > window_start

\* df["time_utc"] >= window_start
in_window(t, window_start) == t >= window_start

\* signal.isin(["BUY", "SELL"])
is_trade(s) == s \in {"BUY", "SELL"}

digest_line(r) ==
    [t      |-> hms(r.time_utc),
     signal |-> r.signal,
     price  |-> fmt(r.price, 2),
     target |-> fmt(r.target, 2),
     stop   |-> fmt(r.stop, 2),
     trend  |-> r.hourly_trend,
     rsi5   |-> fmt(r.rsi5, 1)]

\* a window of timedelta(hours=2)
window_start_of_2h(now_utc) == now_utc - 2 * HOUR

window_start_of(now_utc) == now_utc - HOUR

hourly_digest(file, now_utc) ==
    IF ~file.exists THEN [kind |-> "None"]
    ELSE
    LET df0 == read_csv(file.rows)
    IN  IF Len(df0) = 0 THEN [kind |-> "None"]
        ELSE
        LET df == [i \in 1..Len(df0) |->
                      [df0[i] EXCEPT !.time_utc = to_datetime(df0[i].time_utc)]]
            window_start == window_start_of(now_utc)
            recent == SelectSeq(df, LAMBDA r : in_window(r.time_utc, window_start))
            trades == SelectSeq(recent, LAMBDA r : is_trade(r.signal))
        IN  IF Len(trades) = 0
            THEN [kind   |-> "no alerts",
                  window |-> <<ts_str(window_start), ts_str(now_utc)>>]
            ELSE [kind   |-> "summary",
                  total  |-> Len(trades),
                  lines  |-> [i \in 1..Len(trades) |-> digest_line(trades[i])],
                  window |-> <<ts_str(window_start), ts_str(now_utc)>>]

----------------------------------------------------------------------------
(* Bounds of the model *)

MaxLen == 5        \* longest close series handed to compute_rsi

MaxClose == 3      \* closes range over 1..MaxClose

MaxWindow == 3     \* window lengths range over 1..MaxWindow

MaxRows == 3       \* most rows of a log file handed to hourly_digest

MaxRuns == 2       \* runs started, all scripts together

MaxTicks == 1      \* half hours the clock advances

----------------------------------------------------------------------------
(* Values the variables of the other specifications rest at *)

RsiIdle ==
    /\ rpc = "in"
    /\ close = <<>>
    /\ length = 1
    /\ rsi = <<>>

NoRow == [signal |-> "none"]

SignalIdle ==
    /\ spc = "start"
    /\ bar = NoRow
    /\ n5 = 0
    /\ df5 = NoRow
    /\ df1h = NoRow
    /\ result = NoRow

DigestIdle ==
    /\ dpc = "in"
    /\ dfile = [exists |-> FALSE, rows |-> <<>>]
    /\ dnow = 0
    /\ dbody = [kind |-> "pending"]

Procs == {"main", "scanner", "summary"}

SysIdle ==
    /\ clock = 0
    /\ logFile = [exists |-> FALSE, rows |-> <<>>]
    /\ pc = [p \in Procs |-> "idle"]
    /\ now = [p \in Procs |-> 0]
    /\ sig = [p \in Procs |-> NoRow]
    /\ frame = [p \in Procs |-> <<>>]
    /\ body = [p \in Procs |-> [kind |-> "pending"]]
    /\ runs = 0
    /\ alerts = [p \in Procs |-> 0]
    /\ digests = [p \in Procs |-> 0]
    /\ alertOk = [p \in Procs |-> "none"]
    /\ appends = [p \in Procs |-> 0]
    /\ appended = <<>>

----------------------------------------------------------------------------
(* SpecRsi: compute_rsi applied to every close series within the bounds *)

Closes == UNION {[1..n -> {F(v) : v \in 1..MaxClose}] : n \in 0..MaxLen}

InitRsi ==
    /\ rpc = "in"
    /\ close \in Closes
    /\ length \in 1..MaxWindow
    /\ rsi = <<>>
    /\ SignalIdle
    /\ DigestIdle
    /\ SysIdle

ComputeRsi ==
    /\ rpc = "in"
    /\ rsi' = compute_rsi(close, length)
    /\ rpc' = "done"
    /\ UNCHANGED <<close, length, signalVars, digestVars, sysVars>>

NextRsi == ComputeRsi

SpecRsi == InitRsi /\ [][NextRsi]_vars

\* position i of the series has a fully populated window of deltas
FullWindow(i) == i > length

AllGains(i) ==
    \A j \in (i - length + 1)..i : Gt(close[j], close[j - 1])

AllLosses(i) ==
    \A j \in (i - length + 1)..i : Lt(close[j], close[j - 1])

InRange(x) == Ge(x, F(0)) /\ Le(x, F(100))

\* C7 as stated: RSI is undefined or in [0,100]; an all-gains window gives 100,
\* an all-losses window gives 0.
C7_AllGainsGives100 ==
    rpc = "done" =>
        \A i \in 1..Len(close) :
            /\ IsNaN(rsi[i]) \/ InRange(rsi[i])
            /\ (FullWindow(i) /\ AllGains(i)) => rsi[i] = F(100)
            /\ (FullWindow(i) /\ AllLosses(i)) => rsi[i] = F(0)

\* C7 amended: RSI is undefined or in [0,100]; an all-gains window (average loss
\* exactly zero) gives an undefined RSI, an all-losses window gives 0.
C7_AllGainsUndefined ==
    rpc = "done" =>
        /\ Len(rsi) = Len(close)
        /\ \A i \in 1..Len(close) :
            /\ IsNaN(rsi[i]) \/ InRange(rsi[i])
            /\ (FullWindow(i) /\ AllGains(i)) => IsNaN(rsi[i])
            /\ (FullWindow(i) /\ AllLosses(i)) => rsi[i] = F(0)

\* a series with an all-gains window and an all-losses window, both computed
C7_Witness ==
    /\ rpc = "done"
    /\ length > 1
    /\ \E i \in 1..Len(close) : FullWindow(i) /\ AllGains(i) /\ IsNaN(rsi[i])
    /\ \E i \in 1..Len(close) : FullWindow(i) /\ AllLosses(i) /\ rsi[i] = F(0)
    /\ \E i \in 1..Len(close) : Gt(rsi[i], F(0)) /\ Lt(rsi[i], F(100))

----------------------------------------------------------------------------
(* SpecSignal: one evaluation, fetch -> indicators -> make_signal *)

BarCounts == {1, RSI_LEN_5, RSI_LEN_5 + 1, SWING_LOOKBACK_5 - 1, SWING_LOOKBACK_5}

Prices == {F(10), F(11)}

\* the latest 5m bar; an Open above the High breaks the OHLC invariant
Bars == [Open : {F(10), F(13)}, High : {F(12)}, Low : {F(9)}, Close : Prices]

\* RSI is NaN when the window holds no loss (avg_loss replaced by NaN)
Rsi5Values == {NaN, F(25), F(30), F(70), F(75)}

Rsi1hValues == {NaN, F(40), F(50), F(60)}

EmaPairs == {<<F(10), F(11)>>, <<F(11), F(10)>>, <<F(10), F(10)>>}

AtrValues == {F(0), F(5)}

\* VWAP is NaN while the day's cumulative volume is zero
VwapValues == {NaN, F(9), F(11), F(12)}

SwingHighs == {F(12), F(20)}

SwingLows == {F(1), F(9)}

InitSignal ==
    /\ RsiIdle
    /\ SignalIdle
    /\ DigestIdle
    /\ SysIdle

\* fetch("5m", ..), fetch("60m", ..), indicators_5m, indicators_1h
FetchBars ==
    /\ spc = "start"
    /\ \E n \in BarCounts, b \in Bars, prev \in Prices, r5 \in Rsi5Values,
          e \in EmaPairs, a \in AtrValues, v \in VwapValues,
          sh \in SwingHighs, sl \in SwingLows,
          e1 \in EmaPairs, r1 \in Rsi1hValues :
        /\ n5' = n
        /\ bar' = b
        /\ df5' = indicators_5m(n, b, prev,
                     [RSI |-> r5, EMA9 |-> e[1], EMA21 |-> e[2], ATR |-> a,
                      VWAP |-> v, SwingHigh |-> sh, SwingLow |-> sl])
        /\ df1h' = indicators_1h([RSI |-> r1, EMA_FAST |-> e1[1], EMA_SLOW |-> e1[2]])
    /\ spc' = "fetched"
    /\ UNCHANGED <<result, rsiVars, digestVars, sysVars>>

MakeSignal ==
    /\ spc = "fetched"
    /\ result' = make_signal(df5, df1h)
    /\ spc' = "done"
    /\ UNCHANGED <<bar, n5, df5, df1h, rsiVars, digestVars, sysVars>>

NextSignal == FetchBars \/ MakeSignal

SpecSignal == InitSignal /\ [][NextSignal]_vars

\* the inputs of the decision, named as the specification names them
PrevPrice == IF df5.len > 1 THEN df5.ClosePrev ELSE df5.Close

BuyRule ==
    /\ Lt(df5.RSI, F(30))
    /\ (Gt(df1h.EMA_FAST, df1h.EMA_SLOW) \/ Gt(df1h.RSI, F(50)))
    /\ Ge(df5.EMA9, df5.EMA21)
    /\ Ge(df5.Close, Sub(df5.VWAP, Mul(Rat(1, 5), df5.ATR)))
    /\ Gt(df5.Close, PrevPrice)

SellRule ==
    /\ Gt(df5.RSI, F(70))
    /\ (Lt(df1h.EMA_FAST, df1h.EMA_SLOW) \/ Lt(df1h.RSI, F(50)))
    /\ Le(df5.EMA9, df5.EMA21)
    /\ Le(df5.Close, Add(df5.VWAP, Mul(Rat(1, 5), df5.ATR)))
    /\ Lt(df5.Close, PrevPrice)

\* C1: the signal is BUY exactly when the BUY rule holds, otherwise SELL exactly
\* when the SELL rule holds, otherwise NO SIGNAL.
C1_Decision ==
    spc = "done" =>
        result.signal = IF BuyRule THEN "BUY"
                        ELSE IF SellRule THEN "SELL"
                        ELSE "NO SIGNAL"

\* a BUY decided on the equality edge of the short EMA ordering, and on the edge
\* of the VWAP band
C1_Witness ==
    /\ spc = "done"
    /\ result.signal = "BUY"
    /\ df5.EMA9 = df5.EMA21
    /\ df5.Close = Sub(df5.VWAP, Mul(Rat(1, 5), df5.ATR))

\* the larger / smaller of two defined numbers
Larger(a, b) == IF a.n * b.d >= b.n * a.d THEN a ELSE b

Smaller(a, b) == IF a.n * b.d <= b.n * a.d THEN a ELSE b

\* C2: BUY carries target = max(swingHigh, price + 1.5 atr) and stop = price - atr,
\* SELL carries target = min(swingLow, price - 1.5 atr) and stop = price + atr
\* (an undefined swing extremum makes the target undefined), NO SIGNAL carries
\* null target and stop, and BUY/SELL never carry a null.
C2_TargetStop ==
    spc = "done" =>
        LET up   == Add(df5.Close, Mul(Rat(3, 2), df5.ATR))
            down == Sub(df5.Close, Mul(Rat(3, 2), df5.ATR))
        IN  /\ result.signal = "BUY" =>
                /\ result.target = IF IsNaN(df5.SwingHigh) THEN NaN
                                   ELSE Larger(df5.SwingHigh, up)
                /\ result.stop = Sub(df5.Close, df5.ATR)
                /\ result.target # None /\ result.stop # None
            /\ result.signal = "SELL" =>
                /\ result.target = IF IsNaN(df5.SwingLow) THEN NaN
                                   ELSE Smaller(df5.SwingLow, down)
                /\ result.stop = Add(df5.Close, df5.ATR)
                /\ result.target # None /\ result.stop # None
            /\ result.signal = "NO SIGNAL" =>
                result.target = None /\ result.stop = None

\* a BUY whose target is the ATR target, above the swing high
C2_Witness ==
    /\ spc = "done"
    /\ result.signal = "BUY"
    /\ df5.ATR = F(5)
    /\ df5.SwingHigh = F(12)
    /\ result.target = Rat(35, 2) \/ result.target = Rat(37, 2)

\* C3: an undefined input of a branch makes that branch false, and no BUY or
\* SELL carries an undefined target or stop.
C3_UndefinedNeverEmits ==
    spc = "done" =>
        LET shortNaN == \/ IsNaN(df5.RSI) \/ IsNaN(df5.EMA9) \/ IsNaN(df5.EMA21)
                        \/ IsNaN(df5.VWAP) \/ IsNaN(df5.ATR)
            longNaN  == \/ IsNaN(df1h.EMA_FAST) \/ IsNaN(df1h.EMA_SLOW)
                        \/ (IsNaN(df1h.RSI)
                            /\ df1h.EMA_FAST = df1h.EMA_SLOW)
        IN  /\ (shortNaN \/ longNaN \/ IsNaN(df5.SwingHigh)) => result.signal # "BUY"
            /\ (shortNaN \/ longNaN \/ IsNaN(df5.SwingLow)) => result.signal # "SELL"
            /\ result.signal \in {"BUY", "SELL"} =>
                  ~IsNaN(result.target) /\ ~IsNaN(result.stop)

\* the latest bar violates the OHLC invariants
Malformed(b) ==
    \/ Lt(b.High, b.Open) \/ Lt(b.High, b.Close) \/ Lt(b.High, b.Low)
    \/ Gt(b.Low, b.Open) \/ Gt(b.Low, b.Close)

\* C8: an evaluation over a malformed bar never returns BUY or SELL.
C8_MalformedBarRejected ==
    (spc = "done" /\ Malformed(bar)) => result.signal \notin {"BUY", "SELL"}

----------------------------------------------------------------------------
(* SpecDigest: hourly_digest over the log files and instants within bounds *)

BuyInput ==
    [d5  |-> indicators_5m(SWING_LOOKBACK_5,
                 [Open |-> F(10), High |-> F(12), Low |-> F(9), Close |-> F(11)], F(10),
                 [RSI |-> F(25), EMA9 |-> F(11), EMA21 |-> F(10), ATR |-> F(5),
                  VWAP |-> F(11), SwingHigh |-> F(20), SwingLow |-> F(9)]),
     d1h |-> indicators_1h([RSI |-> F(60), EMA_FAST |-> F(11), EMA_SLOW |-> F(10)])]

SellInput ==
    [d5  |-> indicators_5m(SWING_LOOKBACK_5,
                 [Open |-> F(10), High |-> F(12), Low |-> F(9), Close |-> F(10)], F(11),
                 [RSI |-> F(75), EMA9 |-> F(10), EMA21 |-> F(11), ATR |-> F(5),
                  VWAP |-> F(11), SwingHigh |-> F(20), SwingLow |-> F(9)]),
     d1h |-> indicators_1h([RSI |-> F(40), EMA_FAST |-> F(10), EMA_SLOW |-> F(11)])]

NoSignalInput ==
    [d5  |-> indicators_5m(SWING_LOOKBACK_5,
                 [Open |-> F(10), High |-> F(12), Low |-> F(9), Close |-> F(10)], F(10),
                 [RSI |-> F(30), EMA9 |-> F(10), EMA21 |-> F(10), ATR |-> F(5),
                  VWAP |-> F(11), SwingHigh |-> F(20), SwingLow |-> F(9)]),
     d1h |-> indicators_1h([RSI |-> F(50), EMA_FAST |-> F(10), EMA_SLOW |-> F(10)])]

\* the market data a run can meet: one of each decision
ScanInputs == {BuyInput, SellInput, NoSignalInput}

Results == {make_signal(i.d5, i.d1h) : i \in ScanInputs}

DigestNows == {2 * HOUR, 2 * HOUR + HOUR \div 2}

RowTimes == {HOUR \div 2, HOUR, HOUR + HOUR \div 2, 2 * HOUR}

\* rows as append_signal_log writes them; NO SIGNAL rows stand for records
\* persisted by another writer
DigestRows == {to_csv(<<log_row(t, r)>>)[1] : t \in RowTimes, r \in Results}

InitDigest ==
    /\ dpc = "in"
    /\ dfile \in {[exists |-> FALSE, rows |-> <<>>]}
                 \cup {[exists |-> TRUE, rows |-> rs] :
                          rs \in UNION {[1..n -> DigestRows] : n \in 1..MaxRows}}
    /\ dnow \in DigestNows
    /\ dbody = [kind |-> "pending"]
    /\ RsiIdle
    /\ SignalIdle
    /\ SysIdle

RunDigest ==
    /\ dpc = "in"
    /\ dbody' = hourly_digest(dfile, dnow)
    /\ dpc' = "done"
    /\ UNCHANGED <<dfile, dnow, rsiVars, signalVars, sysVars>>

NextDigest == RunDigest

SpecDigest == InitDigest /\ [][NextDigest]_vars

\* the rows of the file a summary has to cover: BUY/SELL, not older than an hour
Covered ==
    {i \in 1..Len(dfile.rows) :
        /\ dfile.rows[i].signal \in {"BUY", "SELL"}
        /\ dfile.rows[i].time_utc[2] * 60 + dfile.rows[i].time_utc[3] >= dnow - 60}

\* line k of the summary renders row i of the file
Renders(k, i) ==
    /\ dbody.lines[k].t = <<dfile.rows[i].time_utc[2], dfile.rows[i].time_utc[3]>>
    /\ dbody.lines[k].signal = dfile.rows[i].signal

\* C4: the summary holds exactly one line per BUY/SELL record of the trailing
\* hour, none for any other record, none twice, and its total is the line count.
C4_SummaryCoversWindow ==
    (dpc = "done" /\ dbody.kind = "summary") =>
        /\ dbody.total = Len(dbody.lines)
        /\ Len(dbody.lines) = Cardinality(Covered)
        /\ \E f \in [1..Len(dbody.lines) -> Covered] :
              /\ \A k, l \in 1..Len(dbody.lines) : k # l => f[k] # f[l]
              /\ \A k \in 1..Len(dbody.lines) : Renders(k, f[k])

\* a summary over a file that also holds an older record, a NO SIGNAL record and
\* a record exactly one hour old
C4_Witness ==
    /\ dpc = "done"
    /\ dbody.kind = "summary"
    /\ Cardinality(Covered) < Len(dfile.rows)
    /\ \E i \in 1..Len(dfile.rows) : dfile.rows[i].signal = "NO SIGNAL"
    /\ \E i \in Covered : dfile.rows[i].time_utc[2] * 60 + dfile.rows[i].time_utc[3] = dnow - 60

\* C6 as stated: an empty record set, or one without BUY/SELL in the trailing
\* hour, gives the "no alerts" message with the window now-1h .. now, never None.
C6_EmptyGivesNoAlerts ==
    (dpc = "done" /\ Covered = {}) =>
        /\ dbody.kind = "no alerts"
        /\ dbody.window = <<ts_str(dnow - 60), ts_str(dnow)>>

\* C6 amended: a log with records but no BUY/SELL in the trailing hour gives the
\* "no alerts" message with the window now-1h .. now; a missing or empty log
\* gives None.
C6_NonEmptyGivesNoAlerts ==
    (dpc = "done" /\ Covered = {}) =>
        IF dfile.exists /\ Len(dfile.rows) > 0
        THEN /\ dbody.kind = "no alerts"
             /\ dbody.window = <<<<(dnow - 60) \div 60, (dnow - 60) % 60, "UTC">>,
                                 <<dnow \div 60, dnow % 60, "UTC">>>>
        ELSE dbody.kind = "None"

\* a digest over a log whose only BUY/SELL records are older than an hour
C6_Witness ==
    /\ dpc = "done"
    /\ dfile.exists
    /\ \E i \in 1..Len(dfile.rows) : dfile.rows[i].signal \in {"BUY", "SELL"}
    /\ Covered = {}
    /\ dbody.kind = "no alerts"

----------------------------------------------------------------------------
(* Spec: main.run, scanner_5min.run and summary_1hr.run against one log file *)

Scanners == {"main", "scanner"}

TickLen == HOUR \div 2

otherVars == <<rsiVars, signalVars, digestVars>>

Init ==
    /\ RsiIdle
    /\ SignalIdle
    /\ DigestIdle
    /\ clock = HOUR
    /\ logFile = [exists |-> FALSE, rows |-> <<>>]
    /\ pc = [p \in Procs |-> "idle"]
    /\ now = [p \in Procs |-> 0]
    /\ sig = [p \in Procs |-> NoRow]
    /\ frame = [p \in Procs |-> <<>>]
    /\ body = [p \in Procs |-> [kind |-> "pending"]]
    /\ runs = 0
    /\ alerts = [p \in Procs |-> 0]
    /\ digests = [p \in Procs |-> 0]
    /\ alertOk = [p \in Procs |-> "none"]
    /\ appends = [p \in Procs |-> 0]
    /\ appended = <<>>

Tick ==
    /\ clock < HOUR + MaxTicks * TickLen
    /\ clock' = clock + TickLen
    /\ UNCHANGED <<otherVars, logFile, pc, now, sig, frame, body, runs, alerts, digests,
                   alertOk, appends, appended>>

\* now = utc_now()
Start(p) ==
    /\ pc[p] \in {"idle", "done"}
    /\ runs < MaxRuns
    /\ runs' = runs + 1
    /\ now' = [now EXCEPT ![p] = clock]
    /\ sig' = [sig EXCEPT ![p] = NoRow]
    /\ frame' = [frame EXCEPT ![p] = <<>>]
    /\ body' = [body EXCEPT ![p] = [kind |-> "pending"]]
    /\ alerts' = [alerts EXCEPT ![p] = 0]
    /\ digests' = [digests EXCEPT ![p] = 0]
    /\ alertOk' = [alertOk EXCEPT ![p] = "none"]
    /\ appends' = [appends EXCEPT ![p] = 0]
    /\ pc' = [pc EXCEPT ![p] = IF p \in Scanners THEN "scan" ELSE "digest"]
    /\ UNCHANGED <<otherVars, clock, logFile, appended>>

\* where run() continues after the BUY/SELL branch or its else
after_signal(p) == IF p = "main" THEN "digest_check" ELSE "done"

\* fetch, indicators, make_signal, and the test signal in ["BUY", "SELL"]
Scan(p) ==
    /\ pc[p] = "scan"
    /\ \E i \in ScanInputs :
        LET r == make_signal(i.d5, i.d1h)
        IN  /\ sig' = [sig EXCEPT ![p] = r]
            /\ pc' = [pc EXCEPT ![p] =
                        IF r.signal \in {"BUY", "SELL"} THEN "alert" ELSE after_signal(p)]
    /\ UNCHANGED <<otherVars, clock, logFile, now, frame, body, runs, alerts, digests,
                   alertOk, appends, appended>>

\* send_email without its try/except: a failure ends the run
after_send_email_raises(ok, next) == IF ok THEN next ELSE "done"

\* send_email catches every failure of the SMTP exchange and returns
after_send_email(ok, next) == next

\* send_email(subject, body) of the alert
SendAlert(p) ==
    /\ pc[p] = "alert"
    /\ \E ok \in BOOLEAN :
        /\ alertOk' = [alertOk EXCEPT ![p] = IF ok THEN "sent" ELSE "failed"]
        /\ pc' = [pc EXCEPT ![p] = after_send_email(ok, "append")]
    /\ alerts' = [alerts EXCEPT ![p] = @ + 1]
    /\ UNCHANGED <<otherVars, clock, logFile, now, sig, frame, body, runs, digests,
                   appends, appended>>

\* append_signal_log up to the concatenated frame
AppendRead(p) ==
    /\ pc[p] = "append"
    /\ frame' = [frame EXCEPT ![p] = append_frame(logFile, log_row(now[p], sig[p]))]
    /\ pc' = [pc EXCEPT ![p] = "write"]
    /\ UNCHANGED <<otherVars, clock, logFile, now, sig, body, runs, alerts, digests,
                   alertOk, appends, appended>>

\* append_signal_log's df.to_csv
AppendWrite(p) ==
    /\ pc[p] = "write"
    /\ logFile' = write_log(frame[p])
    /\ appends' = [appends EXCEPT ![p] = @ + 1]
    /\ appended' = Append(appended, to_csv(<<log_row(now[p], sig[p])>>)[1])
    /\ pc' = [pc EXCEPT ![p] = after_signal(p)]
    /\ UNCHANGED <<otherVars, clock, now, sig, frame, body, runs, alerts, digests, alertOk>>

\* main.run: if now.minute == 0: body = hourly_digest(now); if body: ..
DigestCheck(p) ==
    /\ p = "main"
    /\ pc[p] = "digest_check"
    /\ IF minute(now[p]) = 0
       THEN LET b == hourly_digest(logFile, now[p])
            IN  /\ body' = [body EXCEPT ![p] = b]
                /\ pc' = [pc EXCEPT ![p] =
                            IF b.kind # "None" THEN "digest_mail" ELSE "done"]
       ELSE /\ pc' = [pc EXCEPT ![p] = "done"]
            /\ UNCHANGED body
    /\ UNCHANGED <<otherVars, clock, logFile, now, sig, frame, runs, alerts, digests,
                   alertOk, appends, appended>>

\* summary_1hr.run: body = hourly_digest(now); if body: ..
Summarize(p) ==
    /\ p = "summary"
    /\ pc[p] = "digest"
    /\ LET b == hourly_digest(logFile, now[p])
       IN  /\ body' = [body EXCEPT ![p] = b]
           /\ pc' = [pc EXCEPT ![p] = IF b.kind # "None" THEN "digest_mail" ELSE "done"]
    /\ UNCHANGED <<otherVars, clock, logFile, now, sig, frame, runs, alerts, digests,
                   alertOk, appends, appended>>

\* send_email("BTC Hourly Update", body)
SendDigest(p) ==
    /\ pc[p] = "digest_mail"
    /\ \E ok \in BOOLEAN :
        pc' = [pc EXCEPT ![p] = after_send_email(ok, "done")]
    /\ digests' = [digests EXCEPT ![p] = @ + 1]
    /\ UNCHANGED <<otherVars, clock, logFile, now, sig, frame, body, runs, alerts,
                   alertOk, appends, appended>>

Next ==
    \/ Tick
    \/ \E p \in Procs :
        \/ Start(p)
        \/ Scan(p)
        \/ SendAlert(p)
        \/ AppendRead(p)
        \/ AppendWrite(p)
        \/ DigestCheck(p)
        \/ Summarize(p)
        \/ SendDigest(p)

Spec == Init /\ [][Next]_vars

LineTime(l) == l.t[1] * 60 + l.t[2]

\* C5: the lines of every summary are in ascending order of record timestamp.
C5_LinesAscending ==
    \A p \in Procs :
        body[p].kind = "summary" =>
            \A k, l \in 1..Len(body[p].lines) :
                k < l => LineTime(body[p].lines[k]) <= LineTime(body[p].lines[l])

\* C9 as stated: a finished scanner run that decided BUY or SELL has appended
\* exactly one record, whatever became of the alert e-mail; one that decided
\* NO SIGNAL has sent no e-mail and appended nothing.
C9_NoSignalNoEmail ==
    \A p \in Scanners :
        pc[p] = "done" =>
            /\ sig[p].signal \in {"BUY", "SELL"} =>
                  appends[p] = 1 /\ alerts[p] = 1
            /\ sig[p].signal = "NO SIGNAL" =>
                  alerts[p] = 0 /\ digests[p] = 0 /\ appends[p] = 0

\* C9 amended: a finished scanner run that decided BUY or SELL has appended
\* exactly one record, whatever became of the alert e-mail; one that decided
\* NO SIGNAL has sent no alert e-mail and appended nothing (main.run may still
\* send the hourly digest).
C9_NoSignalNoAlert ==
    \A p \in Scanners :
        pc[p] = "done" =>
            /\ sig[p].signal \in {"BUY", "SELL"} =>
                  appends[p] = 1 /\ alerts[p] = 1
            /\ sig[p].signal = "NO SIGNAL" =>
                  alerts[p] = 0 /\ appends[p] = 0

\* a run whose alert e-mail failed and whose record was appended all the same,
\* beside a NO SIGNAL run
C9_Witness ==
    /\ pc["scanner"] = "done"
    /\ sig["scanner"].signal = "SELL"
    /\ alertOk["scanner"] = "failed"
    /\ appends["scanner"] = 1
    /\ pc["main"] = "done"
    /\ sig["main"].signal = "NO SIGNAL"

\* C10: once no append_signal_log call is in progress, the log holds every
\* appended record exactly once, in the order the appends completed.
C10_NoLostAppend ==
    (\A p \in Procs : pc[p] # "write") => logFile.rows = appended

====
